---- MODULE Spec2Model ----
(***************************************************************************)
(* UT2Hash (src/ut2hash.py): the hash store (class Database), the file     *)
(* classifier and container decoder (HashGrabber.check_one_file), the     *)
(* scan loop (HashGrabber.scan_directory, UserInterface.cmd_hash) and the  *)
(* shell settings that reach the store (UserInterface.cmd_set).            *)
(*                                                                         *)
(* Names are sequences of one-character strings, so that str.casefold,     *)
(* str.endswith and os.path.basename are computed character by character.  *)
(* A byte stream fed to MD5 is a sequence of extents [id, off, n]: n bytes *)
(* of content id starting at offset off; adjacent extents of one content   *)
(* merge, so the stream does not depend on how update() calls split it.    *)
(***************************************************************************)
EXTENDS Integers, Sequences, FiniteSets, TLC

\* ------------------------------------------------------------------------
\* Bounds of the model
\* ------------------------------------------------------------------------
\* successful and failed Database.put calls made directly in one SpecDB run
MaxPuts == 2
\* directory entries handed to one scan_directory call
MaxFiles == 2
\* f.read calls (chunk headers, plain blocks) in one scan or hash command
MaxReads == 2

\* ------------------------------------------------------------------------
\* Program constants
\* ------------------------------------------------------------------------
PERIODICALLY_COMMIT == 100
\* len(md5) == 32 in Database.put; the length of hashlib's hexdigest
Md5Len == 32

\* ------------------------------------------------------------------------
\* Strings
\* ------------------------------------------------------------------------
\* str.casefold on the characters the model uses
CasefoldChar(c) ==
    CASE c = "A" -> "a"
      [] c = "B" -> "b"
      [] c = "U" -> "u"
      [] c = "Z" -> "z"
      [] OTHER -> c

Casefold(s) == [i \in DOMAIN s |-> CasefoldChar(s[i])]

\* s.endswith(q)
EndsWith(s, q) ==
    /\ Len(s) >= Len(q)
    /\ SubSeq(s, Len(s) - Len(q) + 1, Len(s)) = q

\* ------------------------------------------------------------------------
\* MD5 accumulator (hashlib.md5): the state is the byte stream fed so far
\* ------------------------------------------------------------------------
Md5New == << >>

\* h.update(data): append the bytes of one extent
Md5Update(h, e) ==
    IF e.n = 0 THEN h
    ELSE IF /\ Len(h) > 0
            /\ h[Len(h)].id = e.id
            /\ h[Len(h)].off + h[Len(h)].n = e.off
         THEN [h EXCEPT ![Len(h)].n = h[Len(h)].n + e.n]
         ELSE Append(h, e)

\* h.hexdigest(): 32 hexadecimal characters determined by the stream
Hexdigest(h) == [len |-> Md5Len, of |-> h]

\* ------------------------------------------------------------------------
\* State
\* ------------------------------------------------------------------------
VARIABLES
    \* class Database
    table,          \* rows of table hashes as the open connection sees them
    committed,      \* rows of table hashes that are durable in the file
    intxn,          \* the connection has an open (uncommitted) transaction
    count,          \* Database.count: the id the next put assigns
    force_casefold, \* Database.force_casefold
    isopen,         \* the connection is open
    \* the last Database call and what it did (observation only)
    op,
    nputs,          \* Database.put calls made directly so far (bounded)
    maxIssued,      \* largest id any put assigned on this store so far
    maxIssuedClear, \* the same, since the last clearing initialize
    initCount,      \* count as the last initialize computed it
    putsSinceInit,  \* successful puts since the last initialize
    lastPut,        \* arguments of the last successful put whose row exists
    \* HashGrabber.scan_directory / UserInterface.cmd_hash
    cmd,            \* "idle", "scan", "hash": the command in progress
    listing,        \* os.listdir(fp): the entries of the scanned directory
    idx,            \* position in listing of the entry being handled
    scanRfn,        \* scan_directory's local rfn (unbound until assigned)
    outcome,        \* "none", "running", "done", "raised"
    journal,        \* per entry handled so far: what became of it
    \* HashGrabber.check_one_file (one call frame)
    pc,             \* "none", "decode", "plain", "ret"
    file,           \* the directory entry being checked
    skip_weird,
    rfn, fs, size, h, chunks,
    ret,            \* the returned tuple, or the raised exception
    hist,           \* chunk headers and payloads read in this call
    nreads,         \* f.read calls made in this command (bounded)
    \* UserInterface
    ui_casefold,    \* UserInterface.casefold
    db_casefold     \* the attribute casefold of the Database object, as a
                    \* string: "unset" until cmd_set creates it

dbvars == <<table, committed, intxn, count, force_casefold, isopen>>
dbghost == <<op, nputs, maxIssued, maxIssuedClear, initCount, putsSinceInit,
             lastPut>>
scanvars == <<cmd, listing, idx, scanRfn, outcome, journal>>
cofvars == <<pc, file, skip_weird, rfn, fs, size, h, chunks, ret, hist,
             nreads>>
uivars == <<ui_casefold, db_casefold>>
vars == <<dbvars, dbghost, scanvars, cofvars, uivars>>
\* what a step inside check_one_file leaves alone
outside == <<scanvars, dbvars, dbghost, uivars>>

\* ------------------------------------------------------------------------
\* class Database
\* ------------------------------------------------------------------------
Row(i, fn, sz, md5) == [id |-> i, filename |-> fn, size |-> sz, md5 |-> md5]

Max(S) == CHOOSE x \in S : \A y \in S : y <= x

Ids(tbl) == {r.id : r \in tbl}

\* initialize: SELECT MAX(id); None becomes 0; then += 1
\* mutant: the number of rows instead of the greatest id
NextIdByCount(tbl) == Cardinality(tbl) + 1

\* mutant: the greatest id itself, without the increment
NextIdIsMax(tbl) == IF tbl = {} THEN 1 ELSE Max(Ids(tbl))

NextId(tbl) == (IF tbl = {} THEN 0 ELSE Max(Ids(tbl))) + 1

\* put: assert len(md5) == 32
\* mutant: only over-long digests are refused
ValidMd5AtMost(md5) == md5.len <= Md5Len

ValidMd5(md5) == md5.len = Md5Len

\* put: if self.force_casefold: fn = fn.casefold()
StoredName(fn, fold) == IF fold THEN Casefold(fn) ELSE fn

\* put: if self.count % PERIODICALLY_COMMIT == 0 (count already incremented)
\* mutant: the test is made on the id just assigned
CommitDueOnId(c) == (c - 1) % PERIODICALLY_COMMIT = 0

CommitDue(c) == c % PERIODICALLY_COMMIT = 0

\* remove_duplicates: SELECT MAX(id) FROM hashes GROUP BY filename, md5
\* mutant: GROUP BY md5 alone
KeptIdsByDigest(tbl) ==
    {Max({s.id : s \in {t \in tbl : t.md5 = r.md5}}) : r \in tbl}

KeptIds(tbl) ==
    {Max({s.id : s \in {t \in tbl : /\ t.filename = r.filename
                                    /\ t.md5 = r.md5}}) : r \in tbl}

\* rows of a set in id order (rowid order of a table scan)
RECURSIVE InIdOrder(_)
InIdOrder(rows) ==
    IF rows = {} THEN << >>
    ELSE LET first == CHOOSE r \in rows : \A s \in rows : r.id <= s.id
         IN  <<first>> \o InIdOrder(rows \ {first})

\* find_by_name: SELECT filename, size, md5 WHERE filename=? (binary compare)
NameMatches(stored, asked) == stored = asked

FindByNameRows(tbl, filename) ==
    LET hit == InIdOrder({r \in tbl : NameMatches(r.filename, filename)})
    IN  [i \in DOMAIN hit |-> <<hit[i].filename, hit[i].size, hit[i].md5>>]

NoOp ==
    [name |-> "none", ok |-> TRUE, fn |-> << >>, size |-> 0,
     md5 |-> Hexdigest(Md5New), id |-> 0, auto |-> FALSE, del |-> FALSE,
     gone |-> 0, result |-> << >>]

NoPut ==
    [valid |-> FALSE, fn |-> << >>, size |-> 0, md5 |-> Hexdigest(Md5New),
     id |-> 0, fold |-> FALSE]

StillThere(p, tbl) == IF p.valid /\ p.id \in Ids(tbl) THEN p ELSE NoPut

\* Database.initialize(delete).  DROP TABLE and CREATE TABLE are DDL: the
\* sqlite3 module of Python < 3.6 commits an open transaction before DDL
\* (implicit = TRUE); later versions run it inside the open transaction.
\* Without an open transaction the statements are durable at once.
DbInitialize(delete, implicit) ==
    LET flush == implicit \/ ~intxn
        tbl == IF delete THEN {} ELSE table
    IN  /\ isopen
        /\ table' = tbl
        /\ committed' = (IF flush THEN tbl ELSE committed)
        /\ intxn' = ~flush
        /\ count' = NextId(tbl)
        /\ initCount' = NextId(tbl)
        /\ putsSinceInit' = 0
        /\ maxIssuedClear' = (IF delete THEN 0 ELSE maxIssuedClear)
        /\ lastPut' = StillThere(lastPut, tbl)
        /\ op' = [NoOp EXCEPT !.name = "initialize", !.del = delete]
        /\ UNCHANGED <<force_casefold, isopen, maxIssued>>

\* Database.put(fn, size, md5)
DbPut(fn, sz, md5) ==
    /\ isopen
    /\ IF ~ValidMd5(md5) \/ count \in Ids(table)
       THEN \* AssertionError, or sqlite3.IntegrityError on the primary key
            /\ op' = [NoOp EXCEPT !.name = "put", !.ok = FALSE, !.fn = fn,
                                  !.size = sz, !.md5 = md5]
            /\ UNCHANGED <<dbvars, maxIssued, maxIssuedClear, putsSinceInit,
                           lastPut>>
       ELSE LET name == StoredName(fn, force_casefold)
                tbl == table \cup {Row(count, name, sz, md5)}
                due == CommitDue(count + 1)
            IN  /\ table' = tbl
                /\ count' = count + 1
                /\ committed' = (IF due THEN tbl ELSE committed)
                /\ intxn' = ~due
                /\ op' = [NoOp EXCEPT !.name = "put", !.fn = fn, !.size = sz,
                                      !.md5 = md5, !.id = count, !.auto = due]
                /\ maxIssued' = count
                /\ maxIssuedClear' = count
                /\ putsSinceInit' = putsSinceInit + 1
                /\ lastPut' = [valid |-> TRUE, fn |-> fn, size |-> sz,
                               md5 |-> md5, id |-> count,
                               fold |-> force_casefold]
                /\ UNCHANGED <<force_casefold, isopen>>
    /\ UNCHANGED initCount

\* Database.commit()
DbCommit ==
    /\ isopen
    /\ committed' = table
    /\ intxn' = FALSE
    /\ op' = [NoOp EXCEPT !.name = "commit"]
    /\ UNCHANGED <<table, count, force_casefold, isopen, maxIssued,
                   maxIssuedClear, initCount, putsSinceInit, lastPut>>

\* Database.remove_duplicates(): DELETE ... WHERE id NOT IN (...); commit
DbRemoveDuplicates ==
    LET tbl == {r \in table : r.id \in KeptIds(table)}
    IN  /\ isopen
        /\ table' = tbl
        /\ committed' = tbl
        /\ intxn' = FALSE
        /\ lastPut' = StillThere(lastPut, tbl)
        /\ op' = [NoOp EXCEPT !.name = "remove_duplicates",
                              !.gone = Cardinality(table) - Cardinality(tbl)]
        /\ UNCHANGED <<count, force_casefold, isopen, maxIssued,
                       maxIssuedClear, initCount, putsSinceInit>>

\* Database.find_by_name(filename)
DbFindByName(filename) ==
    /\ isopen
    /\ op' = [NoOp EXCEPT !.name = "find_by_name", !.fn = filename,
                          !.result = FindByNameRows(table, filename)]
    /\ UNCHANGED <<dbvars, maxIssued, maxIssuedClear, initCount,
                   putsSinceInit, lastPut>>

\* Database.close(): commit, then close the connection
DbClose ==
    /\ isopen
    /\ committed' = table
    /\ intxn' = FALSE
    /\ isopen' = FALSE
    /\ op' = [NoOp EXCEPT !.name = "close"]
    /\ UNCHANGED <<table, count, force_casefold, maxIssued, maxIssuedClear,
                   initCount, putsSinceInit, lastPut>>

\* HashGrabber.__init__(db_fn, delete): Database(fn) connects to the file
\* (count = 0, force_casefold = False), then initialize(delete).  The caller
\* sets force_casefold afterwards (UserInterface.__init__) or leaves it
\* False (cmd_set db): casefold is the value it ends with.
DbOpen(delete, casefold) ==
    LET tbl == IF delete THEN {} ELSE committed
    IN  /\ ~isopen
        /\ isopen' = TRUE
        /\ table' = tbl
        /\ committed' = tbl
        /\ intxn' = FALSE
        /\ count' = NextId(tbl)
        /\ initCount' = NextId(tbl)
        /\ putsSinceInit' = 0
        /\ force_casefold' = casefold
        /\ maxIssuedClear' = (IF delete THEN 0 ELSE maxIssuedClear)
        /\ lastPut' = StillThere(lastPut, tbl)
        /\ op' = [NoOp EXCEPT !.name = "open", !.del = delete]
        /\ UNCHANGED maxIssued

\* ------------------------------------------------------------------------
\* File sizes.  A size may exceed 2^31 - 1, so it is kept in two limbs:
\* [hi, lo] stands for hi * 2^31 + lo with 0 <= lo < 2^31 (hi = 0 and
\* lo < 0 for a negative value).
\* ------------------------------------------------------------------------
W(hi, lo) == [hi |-> hi, lo |-> lo]

\* w > 0
WPos(w) == w.hi > 0 \/ w.lo > 0

\* w < n and w > n, for an integer n in 0 .. 2^31 - 1
WLess(w, n) == w.hi = 0 /\ w.lo < n

WGreater(w, n) == w.hi > 0 \/ w.lo > n

\* w - n, for an integer n in 0 .. 2^31 - 1
WSub(w, n) ==
    IF w.lo >= n THEN W(w.hi, w.lo - n)
    ELSE IF w.hi > 0 THEN W(w.hi - 1, ((w.lo - n) + 2147483647) + 1)
    ELSE W(0, w.lo - n)

\* ------------------------------------------------------------------------
\* HashGrabber.check_one_file
\* ------------------------------------------------------------------------
\* chunk validation limits and the plain-hash size ceiling
MaxCs == 33096
MaxUs == 32768
HugeSize == 2147483647
BlockSize == 32768

ExtSep == "."
Uz2Suffix == <<ExtSep, "u", "z", "2">>
PlainSuffixes ==
    { <<"u">>, <<"u", "c", "l">>, <<"u", "k", "x">>, <<"u", "x", "x">>,
      <<"k", "a">>, <<"u", "t", "2">>, <<"o", "g", "g">>, <<"u", "a", "x">>,
      <<"u", "s", "x">>, <<"u", "t", "x">> }

\* os.path.basename: what follows the last separator
RECURSIVE Basename(_)
Basename(s) ==
    IF \E i \in DOMAIN s : s[i] = "/"
    THEN Basename(Tail(s))
    ELSE s

\* os.path.join(fp, fn) for the scanned directory fp = "d"
JoinPath(fn) == <<"d", "/">> \o fn

\* fn.casefold().endswith(os.path.extsep + "uz2")
IsUz2(fn) == EndsWith(Casefold(fn), Uz2Suffix)

\* any(map(lambda q: fn.casefold().endswith(q), (...)))
IsPlain(fn) == \E q \in PlainSuffixes : EndsWith(Casefold(fn), q)

\* if size > 2147483647
Oversize(sz) == WGreater(sz, HugeSize)

\* the values check_one_file returns, and an escaping exception
Sentinel(name) ==
    [raised |-> FALSE, exc |-> "", rfn |-> name, ok |-> FALSE, size |-> 0,
     md5 |-> Hexdigest(Md5New)]

Hashed(name, sz, acc) ==
    [raised |-> FALSE, exc |-> "", rfn |-> name, ok |-> TRUE, size |-> sz,
     md5 |-> Hexdigest(acc)]

Raised(name, what) ==
    [raised |-> TRUE, exc |-> what, rfn |-> name, ok |-> FALSE, size |-> 0,
     md5 |-> Hexdigest(Md5New)]

NoFile == [name |-> << >>, isfile |-> FALSE, readable |-> FALSE,
           disk |-> W(0, 0)]

\* len(chunk) != cs after chunk = f.read(cs), with left bytes in the file
Truncated(left, cs) == WLess(left, cs)

\* mutant: the loop forgets to count the chunk it has read
RemainingKept(left, cs) == left

\* fs -= 8+cs
Remaining(left, cs) == WSub(WSub(left, 8), cs)

\* mutant: break instead of return on a truncated chunk
TruncationBreaks(name, sz, acc) == Hashed(name, sz, acc)

\* what check_one_file answers on a truncated chunk: return (rfn, None, None)
TruncationResult(name, sz, acc) == Sentinel(name)

\* mutant: the chunk is put in front of what was hashed so far
HashFeedInFront(acc, data) == IF data.n = 0 THEN acc ELSE <<data>> \o acc

\* h.update(chunk) on the inflated chunk
HashFeed(acc, data) == Md5Update(acc, data)

\* zlib.decompress(chunk, 15, us): the outcome depends on the payload alone;
\* an empty payload is never a complete stream
InflateErr == [ok |-> FALSE, out |-> [id |-> "", off |-> 0, n |-> 0]]
InflateOk(e) == [ok |-> TRUE, out |-> e]

\* ------------------------------------------------------------------------
\* Inputs
\* ------------------------------------------------------------------------
Names ==
    { <<"a", ".", "u", "z", "2">>, <<"B", ".", "U", "Z", "2">>,
      <<"c", ".", "u">>, <<"d", ".", "x">>, <<"e", ".", "x", "u">> }

\* readable files of every name, a plain file that cannot be opened, and a
\* sub-directory
Entries ==
    {[name |-> n, isfile |-> TRUE, readable |-> TRUE, disk |-> W(0, 0)] :
        n \in Names}
    \cup {[name |-> <<"c", ".", "u">>, isfile |-> TRUE, readable |-> FALSE,
           disk |-> W(0, 0)]}
    \cup {[name |-> <<"s">>, isfile |-> FALSE, readable |-> TRUE,
           disk |-> W(0, 0)]}

\* on-disk sizes: empty, one 9-byte chunk, one chunk and 4 stray bytes, two
\* chunks less the last byte, two chunks, the ceiling, and 2^31 (one chunk
\* of 2147483640 bytes)
Sizes ==
    { W(0, 0), W(0, 17), W(0, 21), W(0, 33), W(0, 34), W(0, HugeSize),
      W(1, 0) }

CsSet == {0, 9, 2147483640}
UsSet == {0, 3, MaxUs + 1}

Ext(i, n) == [id |-> i, off |-> 0, n |-> n]
Outs == {Ext("p", 3), Ext("q", 5)}

InflateResults(cs) ==
    IF cs = 0 THEN {InflateErr}
    ELSE {InflateErr} \cup {InflateOk(e) : e \in Outs}

\* ------------------------------------------------------------------------
\* check_one_file(fn, skip_weird), lines 174-184 and 221-236: the routing,
\* up to the first read.  sz is what os.path.getsize(fn) answers.
\* ------------------------------------------------------------------------
CofEnter(f, sw, sz) ==
    LET p == JoinPath(f.name)
    IN  /\ file' = [f EXCEPT !.disk = sz]
        /\ skip_weird' = sw
        /\ h' = Md5New
        /\ hist' = << >>
        /\ chunks' = 0
        /\ IF IsUz2(p)
           THEN LET name == Basename(SubSeq(p, 1, Len(p) - 4))
                IN  /\ rfn' = name
                    /\ fs' = sz
                    /\ size' = 0
                    /\ IF f.readable
                       THEN pc' = "decode" /\ ret' = Sentinel(<< >>)
                       ELSE pc' = "ret" /\ ret' = Raised(name, "OSError")
           ELSE LET name == Basename(p)
                IN  /\ rfn' = name
                    /\ fs' = sz
                    /\ IF ~IsPlain(p) /\ sw
                       THEN /\ size' = 0
                            /\ pc' = "ret"
                            /\ ret' = Sentinel(name)
                       ELSE IF Oversize(sz)
                       THEN /\ size' = 0
                            /\ pc' = "ret"
                            /\ ret' = Sentinel(name)
                       ELSE /\ size' = sz.lo
                            /\ IF f.readable
                               THEN pc' = "plain" /\ ret' = Sentinel(<< >>)
                               ELSE /\ pc' = "ret"
                                    /\ ret' = Raised(name, "OSError")

\* while fs > 0 is false: return (rfn, size, h.hexdigest())
DecodeExit ==
    /\ pc = "decode"
    /\ ~WPos(fs)
    /\ pc' = "ret"
    /\ ret' = Hashed(rfn, size, h)
    /\ UNCHANGED <<file, skip_weird, rfn, fs, size, h, chunks, hist, nreads>>

\* f.read(8) answers fewer than 8 bytes: struct.error, break, return
DecodeEof ==
    /\ pc = "decode"
    /\ WPos(fs)
    /\ WLess(fs, 8)
    /\ nreads < MaxReads
    /\ nreads' = nreads + 1
    /\ hist' = Append(hist, [kind |-> "short", cs |-> 0, us |-> 0,
                             got |-> 0, res |-> InflateErr])
    /\ pc' = "ret"
    /\ ret' = Hashed(rfn, size, h)
    /\ UNCHANGED <<file, skip_weird, rfn, fs, size, h, chunks>>

\* one iteration of the loop on a full header (cs, us), lines 186-218
DecodeChunk(cs, us, res) ==
    LET left == WSub(fs, 8)
        rec == [kind |-> "chunk", cs |-> cs, us |-> us,
                got |-> (IF left.hi = 0 /\ left.lo < cs THEN left.lo ELSE cs),
                res |-> res]
    IN  /\ pc = "decode"
        /\ WPos(fs)
        /\ ~WLess(fs, 8)
        /\ nreads < MaxReads
        /\ nreads' = nreads + 1
        /\ fs' = Remaining(fs, cs)
        /\ IF Truncated(left, cs)
           THEN /\ res = InflateErr
                /\ hist' = Append(hist, rec)
                /\ pc' = "ret"
                /\ ret' = TruncationResult(rfn, size, h)
                /\ UNCHANGED <<size, h, chunks>>
           ELSE /\ res \in InflateResults(cs)
                /\ hist' = Append(hist, rec)
                /\ IF ~res.ok
                   THEN /\ pc' = "ret"
                        /\ ret' = Raised(rfn, "zlib.error")
                        /\ UNCHANGED <<size, h, chunks>>
                   ELSE /\ size' = size + us
                        /\ h' = HashFeed(h, res.out)
                        /\ chunks' = chunks + 1
                        /\ pc' = "decode"
                        /\ UNCHANGED ret
        /\ UNCHANGED <<file, skip_weird, rfn>>

\* one iteration of the plain loop, lines 237-241: chunk = f.read(32768).
\* fs is the number of bytes of the file not read yet.
PlainRead ==
    LET n == IF WLess(fs, BlockSize) THEN fs.lo ELSE BlockSize
        e == [id |-> "f", off |-> size - fs.lo, n |-> n]
    IN  /\ pc = "plain"
        /\ nreads < MaxReads
        /\ nreads' = nreads + 1
        /\ hist' = Append(hist, [kind |-> "block", cs |-> n, us |-> n,
                                 got |-> n, res |-> InflateOk(e)])
        /\ IF n = 0
           THEN /\ pc' = "ret"
                /\ ret' = Hashed(rfn, size, h)
                /\ UNCHANGED <<fs, h>>
           ELSE /\ h' = Md5Update(h, e)
                /\ fs' = WSub(fs, n)
                /\ UNCHANGED <<pc, ret>>
        /\ UNCHANGED <<file, skip_weird, rfn, size, chunks>>

\* ------------------------------------------------------------------------
\* HashGrabber.scan_directory and UserInterface.cmd_hash
\* ------------------------------------------------------------------------
Unbound == [bound |-> FALSE, val |-> << >>]
Bound(v) == [bound |-> TRUE, val |-> v]

\* the last read of the call found the payload shorter than declared
CutShort(hs) == Len(hs) > 0 /\ hs[Len(hs)].got < hs[Len(hs)].cs

Entry(what) ==
    [name |-> file.name, what |-> what, cut |-> CutShort(hist)]

CofIdle ==
    /\ pc' = "none"
    /\ file' = NoFile
    /\ ret' = Sentinel(<< >>)
    /\ hist' = << >>
    /\ h' = Md5New
    /\ rfn' = << >>
    /\ fs' = W(0, 0)
    /\ size' = 0
    /\ chunks' = 0
    /\ UNCHANGED skip_weird

\* scan_directory(fp) is called.  The entries of os.listdir(fp) are drawn
\* one by one as the loop reaches them: listing holds those reached so far.
ScanStart ==
    /\ cmd = "idle"
    /\ isopen
    /\ cmd' = "scan"
    /\ idx' = 1
    /\ scanRfn' = Unbound
    /\ outcome' = "running"
    /\ UNCHANGED <<listing, journal, dbvars, dbghost, cofvars>>
    /\ UNCHANGED uivars

\* if not os.path.isfile(p): continue
ScanSkipFolder(e) ==
    /\ cmd = "scan" /\ outcome = "running" /\ pc = "none"
    /\ Len(listing) < MaxFiles
    /\ ~e.isfile
    /\ listing' = Append(listing, e)
    /\ journal' = Append(journal,
                         [name |-> e.name, what |-> "folder",
                          cut |-> FALSE])
    /\ idx' = idx + 1
    /\ UNCHANGED <<cmd, scanRfn, outcome, dbvars, dbghost, cofvars>>
    /\ UNCHANGED uivars

\* try: rfn, size, md5 = self.check_one_file(p): the call
ScanCheck(e, sz) ==
    /\ cmd = "scan" /\ outcome = "running" /\ pc = "none"
    /\ Len(listing) < MaxFiles
    /\ e.isfile
    /\ listing' = Append(listing, e)
    /\ CofEnter(e, TRUE, sz)
    /\ UNCHANGED <<cmd, idx, scanRfn, outcome, journal, dbvars, dbghost,
                   nreads>>
    /\ UNCHANGED uivars

\* lines 251-261: what scan_directory does with the call's result
ScanHandle ==
    /\ cmd = "scan" /\ outcome = "running" /\ pc = "ret"
    /\ CofIdle
    /\ IF ret.raised
       THEN \* except: log("...".format(rfn)); md5 = None
            IF ~scanRfn.bound
            THEN \* rfn is not assigned yet: the handler itself raises
                 /\ outcome' = "raised"
                 /\ journal' = Append(journal, Entry("abort"))
                 /\ UNCHANGED <<idx, scanRfn, dbvars, dbghost>>
            ELSE /\ journal' = Append(journal, Entry("error"))
                 /\ idx' = idx + 1
                 /\ UNCHANGED <<scanRfn, outcome, dbvars, dbghost>>
       ELSE /\ scanRfn' = Bound(ret.rfn)
            /\ idx' = idx + 1
            /\ UNCHANGED outcome
            /\ IF ~ret.ok
               THEN /\ journal' = Append(journal, Entry("nohash"))
                    /\ UNCHANGED <<dbvars, dbghost>>
               ELSE /\ DbPut(ret.rfn, ret.size, ret.md5)
                    /\ journal' = Append(journal, Entry("inserted"))
                    /\ UNCHANGED nputs
    /\ UNCHANGED <<cmd, listing, nreads>>
    /\ UNCHANGED uivars

\* the listing is exhausted: self.db.commit() after the loop
ScanFinish ==
    /\ cmd = "scan" /\ outcome = "running" /\ pc = "none"
    /\ DbCommit
    /\ outcome' = "done"
    /\ UNCHANGED <<cmd, listing, idx, scanRfn, journal, nputs, cofvars>>
    /\ UNCHANGED uivars

\* cmd_hash(arg): the file exists; check_one_file(fp, skip_weird=False)
CmdHash(f, sz) ==
    /\ cmd = "idle"
    /\ f.isfile
    /\ cmd' = "hash"
    /\ outcome' = "running"
    /\ CofEnter(f, FALSE, sz)
    /\ UNCHANGED <<listing, idx, scanRfn, journal, dbvars, dbghost, nreads>>
    /\ UNCHANGED uivars

\* cmd_hash prints the row; an exception goes to run()'s handler
CmdHashDone ==
    /\ cmd = "hash" /\ outcome = "running" /\ pc = "ret"
    /\ outcome' = (IF ret.raised THEN "raised" ELSE "done")
    /\ journal' = Append(journal, Entry(IF ret.raised THEN "error"
                                        ELSE IF ret.ok THEN "hashed"
                                        ELSE "nohash"))
    /\ UNCHANGED <<cmd, listing, idx, scanRfn, dbvars, dbghost, cofvars>>
    /\ UNCHANGED uivars

\* ------------------------------------------------------------------------
\* Specifications
\* ------------------------------------------------------------------------
Nab == <<"A", "b">>
nab == <<"a", "b">>
D1 == Hexdigest(<<Ext("p", 3)>>)
D2 == Hexdigest(Md5New)

\* stores the program finds on disk when it starts
InitialTables ==
    { {},
      {Row(98, nab, 1, D1)},
      {Row(1, Nab, 1, D1), Row(2, Nab, 2, D1), Row(3, nab, 1, D1)} }

DbStart(tbl, casefold) ==
    /\ table = tbl
    /\ committed = tbl
    /\ intxn = FALSE
    /\ count = NextId(tbl)
    /\ force_casefold = casefold
    /\ isopen = TRUE
    /\ op = NoOp
    /\ nputs = 0
    /\ maxIssued = NextId(tbl) - 1
    /\ maxIssuedClear = NextId(tbl) - 1
    /\ initCount = NextId(tbl)
    /\ putsSinceInit = 0
    /\ lastPut = NoPut

\* UserInterface.__init__: self.casefold = casefold
UiStart(cf) ==
    /\ ui_casefold = cf
    /\ db_casefold = "unset"

NoCommand ==
    /\ cmd = "idle"
    /\ listing = << >>
    /\ idx = 0
    /\ scanRfn = Unbound
    /\ outcome = "none"
    /\ journal = << >>
    /\ pc = "none"
    /\ file = NoFile
    /\ skip_weird = TRUE
    /\ rfn = << >>
    /\ fs = W(0, 0)
    /\ size = 0
    /\ h = Md5New
    /\ chunks = 0
    /\ ret = Sentinel(<< >>)
    /\ hist = << >>
    /\ nreads = 0

\* UserInterface.__init__ done on a new store with the default casefold
\* (HashGrabber built, force_casefold set); then one build or hash command
Init ==
    /\ DbStart({}, TRUE)
    /\ UiStart(TRUE)
    /\ NoCommand

Next ==
    \/ ScanStart
    \/ \E e \in Entries : ScanSkipFolder(e)
    \/ \E e \in Entries, sz \in Sizes : ScanCheck(e, sz)
    \/ ScanHandle
    \/ ScanFinish
    \/ \E f \in Entries, sz \in Sizes : CmdHash(f, sz)
    \/ CmdHashDone
    \/ (DecodeExit /\ UNCHANGED outside)
    \/ (DecodeEof /\ UNCHANGED outside)
    \/ (\E cs \in CsSet, us \in UsSet, res \in {InflateErr} \cup
            {InflateOk(e) : e \in Outs} :
          DecodeChunk(cs, us, res) /\ UNCHANGED outside)
    \/ (PlainRead /\ UNCHANGED outside)

Spec == Init /\ [][Next]_vars

\* the store alone: any sequence of Database calls
NameSet == {Nab, nab}
SizeSet == {2}
DigestSet == {D1, D2, [D1 EXCEPT !.len = 31], [D2 EXCEPT !.len = 33]}

Idle == UNCHANGED <<scanvars, cofvars, uivars>>

Initialize(delete, implicit) ==
    DbInitialize(delete, implicit) /\ UNCHANGED nputs /\ Idle

Put(fn, sz, md5) ==
    /\ nputs < MaxPuts
    /\ nputs' = nputs + 1
    /\ DbPut(fn, sz, md5)
    /\ Idle

Commit == DbCommit /\ UNCHANGED nputs /\ Idle

RemoveDuplicates == DbRemoveDuplicates /\ UNCHANGED nputs /\ Idle

FindByName(fn) == DbFindByName(fn) /\ UNCHANGED nputs /\ Idle

Close == DbClose /\ UNCHANGED nputs /\ Idle

Open(delete, casefold) == DbOpen(delete, casefold) /\ UNCHANGED nputs /\ Idle

InitDB ==
    /\ \E tbl \in InitialTables, cf \in BOOLEAN : DbStart(tbl, cf)
    /\ UiStart(TRUE)
    /\ NoCommand

NextDB ==
    \/ \E delete \in BOOLEAN, implicit \in BOOLEAN :
          Initialize(delete, implicit)
    \/ \E fn \in NameSet, sz \in SizeSet, md5 \in DigestSet : Put(fn, sz, md5)
    \/ Commit
    \/ RemoveDuplicates
    \/ \E fn \in NameSet : FindByName(fn)
    \/ Close
    \/ \E delete \in BOOLEAN, casefold \in BOOLEAN : Open(delete, casefold)

SpecDB == InitDB /\ [][NextDB]_vars

\* cmd_set db: close the open Database (commit, close), then Database(fn)
\* (count = 0, force_casefold = False) and initialize(delete=False).  The
\* file named is the one that was open, or one that does not exist yet
\* (fresh); nothing happens unless the answer to the prompt is Y.
CmdSetDb(yes, fresh) ==
    LET tbl == IF fresh THEN {} ELSE table
    IN  /\ cmd = "idle"
        /\ isopen
        /\ IF ~yes
           THEN UNCHANGED <<dbvars, dbghost, uivars>>
           ELSE /\ table' = tbl
                /\ committed' = tbl
                /\ intxn' = FALSE
                /\ count' = NextId(tbl)
                /\ initCount' = NextId(tbl)
                /\ putsSinceInit' = 0
                /\ force_casefold' = FALSE
                /\ db_casefold' = "unset"
                /\ maxIssuedClear' = (IF fresh THEN 0 ELSE maxIssuedClear)
                /\ lastPut' = StillThere(lastPut, tbl)
                /\ op' = [NoOp EXCEPT !.name = "open"]
                /\ UNCHANGED <<isopen, nputs, maxIssued, ui_casefold>>
        /\ UNCHANGED <<scanvars, cofvars>>

\* cmd_set casefold true|false: self.casefold = (arg == "true");
\* self.h.db.casefold = self.casefold
CmdSetCasefold(arg) ==
    /\ cmd = "idle"
    /\ arg \in {"true", "false"}
    /\ ui_casefold' = (arg = "true")
    /\ db_casefold' = arg
    /\ UNCHANGED <<dbvars, dbghost, scanvars, cofvars>>

\* the shell: set commands, then one build of a directory
UiEntries ==
    {e \in Entries :
        /\ e.readable
        /\ e.name \in {<<"B", ".", "U", "Z", "2">>, <<"c", ".", "u">>,
                       <<"s">>}}
UiSizes == {W(0, 0), W(0, 21)}

InitUI ==
    /\ \E tbl \in InitialTables, cf \in BOOLEAN :
          DbStart(tbl, cf) /\ UiStart(cf)
    /\ NoCommand

NextUI ==
    \/ \E yes \in BOOLEAN, fresh \in BOOLEAN : CmdSetDb(yes, fresh)
    \/ \E arg \in {"true", "false", "yes"} : CmdSetCasefold(arg)
    \/ ScanStart
    \/ \E e \in UiEntries : ScanSkipFolder(e)
    \/ \E e \in UiEntries, sz \in UiSizes : ScanCheck(e, sz)
    \/ ScanHandle
    \/ ScanFinish
    \/ (DecodeExit /\ UNCHANGED outside)
    \/ (DecodeEof /\ UNCHANGED outside)
    \/ (\E cs \in CsSet, us \in UsSet, res \in {InflateErr} \cup
            {InflateOk(e) : e \in Outs} :
          DecodeChunk(cs, us, res) /\ UNCHANGED outside)
    \/ (PlainRead /\ UNCHANGED outside)

SpecUI == InitUI /\ [][NextUI]_vars

\* one check_one_file call (cmd_hash) on a file small enough to be read to
\* its end, run to completion: the interpreter keeps executing the loop
DecodeSizes == {W(0, 0), W(0, 7), W(0, 17), W(0, 21), W(0, 33), W(0, 34)}

LoopStep ==
    /\ \/ DecodeExit
       \/ DecodeEof
       \/ \E cs \in CsSet, us \in UsSet, res \in {InflateErr} \cup
               {InflateOk(e) : e \in Outs} : DecodeChunk(cs, us, res)
       \/ PlainRead
    /\ UNCHANGED outside

NextDecode ==
    \/ \E f \in Entries, sz \in DecodeSizes : CmdHash(f, sz)
    \/ CmdHashDone
    \/ (DecodeExit /\ UNCHANGED outside)
    \/ (DecodeEof /\ UNCHANGED outside)
    \/ (\E cs \in CsSet, us \in UsSet, res \in {InflateErr} \cup
            {InflateOk(e) : e \in Outs} :
          DecodeChunk(cs, us, res) /\ UNCHANGED outside)
    \/ (PlainRead /\ UNCHANGED outside)

SpecDecode == Init /\ [][NextDecode]_vars /\ WF_vars(LoopStep)

\* ========================================================================
\* Claims
\* ========================================================================
InCall == pc \in {"decode", "plain", "ret"}

\* C1: a file whose on-disk size exceeds 2,147,483,647 bytes gets no hash
\* (check_one_file returns the no-hash sentinel) and none of its content is
\* read, whatever its extension and whether unrecognized types are skipped.
C1_OversizeNeverRead ==
    (InCall /\ Oversize(file.disk)) =>
        /\ Len(hist) = 0
        /\ pc = "ret"
        /\ ~ret.ok

\* C2: a check_one_file failure (no hash, or an exception) on any entry,
\* the first included, never aborts scan_directory: the loop goes on and
\* the final commit is executed.
C2_FailureNeverAbortsScan ==
    /\ cmd = "scan" => outcome # "raised"
    /\ \A i \in DOMAIN journal : journal[i].what # "abort"

ZeroSized(rec) == rec.kind = "chunk" /\ (rec.cs = 0 \/ rec.us = 0)

\* C3: a chunk header with compressed_size 0 or uncompressed_size 0 aborts
\* the decode at that chunk: its payload is not inflated into the hash, no
\* further chunk is read, and the call yields no (size, digest).
C3_ZeroSizedChunkAborts ==
    \A i \in DOMAIN hist :
        ZeroSized(hist[i]) =>
            /\ i = Len(hist)
            /\ chunks < i
            /\ pc = "ret"
            /\ ~ret.ok

\* C4: when the stream ends inside a chunk payload, check_one_file returns
\* the no-hash sentinel (not a digest of the chunks decoded so far, not an
\* exception) and scan_directory inserts no row for the file.
C4_TruncationGivesSentinel ==
    [][ /\ (pc' \in {"decode", "ret"} /\ CutShort(hist')) =>
              (pc' = "ret" /\ ret' = Sentinel(rfn'))
        /\ (cmd = "scan" /\ pc = "ret" /\ CutShort(hist)) =>
              (table' = table /\ count' = count /\ outcome' = "running")
      ]_vars

\* the scan skipped a truncated container, leaving the table empty, and
\* went on to the next entry
C4_Witness ==
    /\ cmd = "scan"
    /\ Len(journal) = 2
    /\ journal[1].cut
    /\ journal[1].what = "nohash"
    /\ journal[2].what = "inserted"
    /\ Cardinality(table) = 1

\* every read of the call was a whole chunk with non-zero sizes within the
\* bounds whose payload inflates
ValidChunk(rec) ==
    /\ rec.kind = "chunk"
    /\ rec.got = rec.cs
    /\ rec.cs > 0 /\ rec.cs <= MaxCs
    /\ rec.us > 0 /\ rec.us <= MaxUs
    /\ rec.res.ok

ValidContainer ==
    /\ IsUz2(JoinPath(file.name))
    /\ file.readable
    /\ \A i \in DOMAIN hist : ValidChunk(hist[i])
    /\ fs = W(0, 0)

\* the decompressed chunks, one after the other
Payloads == SelectSeq([i \in DOMAIN hist |-> hist[i].res.out],
                      LAMBDA e : e.n > 0)

\* C5: for a valid container the hash is fed exactly the decompressed
\* payloads of chunks 1..n in file order, once each: the digest is that of
\* their concatenation, also when the last chunk brings remaining to 0.
C5_DigestOfConcatenation ==
    (pc = "ret" /\ ValidContainer) =>
        /\ ret.ok
        /\ ~ret.raised
        /\ ret.md5 = Hexdigest(Payloads)
        /\ chunks = Len(hist)

\* a container of two chunks with different payloads was decoded to its end
C5_Witness ==
    /\ pc = "ret"
    /\ ValidContainer
    /\ Len(hist) = 2
    /\ hist[1].res.out # hist[2].res.out
    /\ ret.ok

\* a successful put: the only step that counts one more put since initialize
PutStep == putsSinceInit' = putsSinceInit + 1

\* C6 as stated: every id a put assigns is greater than every id assigned
\* before on the store, also across a clearing initialize.
C6_IdsNeverReused == [][PutStep => op'.id > maxIssued]_vars

\* C6 as amended: every id a put assigns is greater than every id assigned
\* since the table was last dropped by a clearing initialize.
C6_IdsIncreaseSinceClear == [][PutStep => op'.id > maxIssuedClear]_vars

\* a put on a store that was opened over existing rows
C6_Witness ==
    /\ op.name = "put" /\ op.ok
    /\ putsSinceInit = 1
    /\ initCount > 1
    /\ op.id = initCount

SameGroup(r, s) == r.filename = s.filename /\ r.md5 = s.md5

\* C7: remove_duplicates leaves, of every (name, digest) group, exactly the
\* row with the greatest id, unchanged; deletes the others; and commits.
C7_KeepsNewestOfEachGroup ==
    [][ (op'.name = "remove_duplicates" /\ op' # op) =>
          /\ table' \subseteq table
          /\ \A r \in table :
                /\ \E s \in table' : SameGroup(r, s)
                /\ r \in table' <=>
                      \A s \in table : SameGroup(r, s) => s.id <= r.id
          /\ \A r, s \in table' : SameGroup(r, s) => r = s
          /\ committed' = table'
          /\ ~intxn'
      ]_vars

\* duplicates were removed and rows of several groups remain
C7_Witness ==
    /\ op.name = "remove_duplicates"
    /\ op.gone > 0
    /\ Cardinality(table) >= 2

\* C8: put with a digest whose length is not 32 is rejected and changes
\* nothing: no row, no id consumed, no commit.
C8_BadDigestRejected ==
    [][ (op'.name = "put" /\ op'.md5.len # Md5Len /\ nputs' = nputs + 1) =>
          /\ ~op'.ok
          /\ UNCHANGED <<table, committed, intxn, count>>
      ]_vars

\* a short digest was refused while a commit was due on the next id
C8_Witness ==
    /\ op.name = "put" /\ ~op.ok
    /\ op.md5.len = 31
    /\ CommitDue(count + 1)
    /\ table # {}

\* C9 as stated: the k-th successful put since initialize commits exactly
\* when k is a multiple of PERIODICALLY_COMMIT.
C9_CommitEveryNthPut ==
    (op.name = "put" /\ op.ok) =>
        (op.auto <=> putsSinceInit % PERIODICALLY_COMMIT = 0)

\* C9 as amended: a put commits exactly when the id it assigned plus one,
\* that is the next id computed by initialize plus the number of puts
\* since, is a multiple of PERIODICALLY_COMMIT.
C9_CommitWhenNextIdIsMultiple ==
    (op.name = "put" /\ op.ok) =>
        /\ op.auto <=>
              (initCount + putsSinceInit) % PERIODICALLY_COMMIT = 0
        /\ op.id + 1 = initCount + putsSinceInit
        /\ op.auto => (committed = table /\ ~intxn)
        /\ ~op.auto => intxn

\* the first put on a store whose greatest id was 98 committed
C9_Witness ==
    /\ op.name = "put" /\ op.ok /\ op.auto
    /\ putsSinceInit = 1

\* C10: with case-folding on, find_by_name(n2) returns the row stored by
\* put(n1, ...) for every n2 that differs from n1 only in letter case.
C10_LookupIgnoresCase ==
    ( /\ op.name = "find_by_name"
      /\ force_casefold
      /\ lastPut.valid /\ lastPut.fold
      /\ Casefold(lastPut.fn) = Casefold(op.fn) ) =>
        \E i \in DOMAIN op.result :
            op.result[i] = <<Casefold(lastPut.fn), lastPut.size, lastPut.md5>>

\* what follows the last extension separator of a name, lowercased
RECURSIVE Extension(_)
Extension(s) ==
    IF \E i \in DOMAIN s : s[i] = ExtSep
    THEN Extension(Tail(s))
    ELSE Casefold(s)

Recognised(name) ==
    Extension(name) \in PlainSuffixes \cup {<<"u", "z", "2">>}

\* C11: with skip_weird true, check_one_file produces no hash for a file
\* whose extension is neither uz2 nor in the allow-list.
C11_UnlistedExtensionSkipped ==
    (pc = "ret" /\ skip_weird /\ ~Recognised(file.name)) => ~ret.ok

\* remaining went down by at least 8 (and is what the header says)
DownByHeader(before, after, cs) ==
    /\ after = WSub(WSub(before, 8), cs)
    /\ \/ after.hi < before.hi
       \/ after.hi = before.hi /\ after.lo <= before.lo - 8

\* C12: the container decode loop terminates: an iteration either ends the
\* decode (a short header read ends it successfully with what was
\* accumulated; a failure ends it) or takes at least 8 off remaining; the
\* loop reads nothing more once remaining <= 0; every decode reaches its
\* return.
C12_DecodeTerminates ==
    /\ [][ /\ (pc = "decode" /\ pc' = "decode") =>
                /\ Len(hist') = Len(hist) + 1
                /\ DownByHeader(fs, fs', hist'[Len(hist')].cs)
           /\ (pc = "decode" /\ ~WPos(fs)) =>
                (pc' = "ret" /\ hist' = hist /\ ret' = Hashed(rfn, size, h))
           /\ ( /\ pc = "decode"
                /\ Len(hist') = Len(hist) + 1
                /\ hist'[Len(hist')].kind = "short" ) =>
                (WLess(fs, 8) /\ pc' = "ret" /\ ret' = Hashed(rfn, size, h))
         ]_vars
    /\ (pc = "decode") ~> (pc = "ret")

\* a decode ended on a short header read after one chunk, with a digest
C12_Witness ==
    /\ pc = "ret"
    /\ Len(hist) = 2
    /\ hist[1].kind = "chunk" /\ hist[1].res.ok
    /\ hist[2].kind = "short"
    /\ ret.ok
    /\ ret.md5 = Hexdigest(<<hist[1].res.out>>)

\* C13: after any sequence of set casefold and set db commands, an insert
\* stores the lowercased name if and only if UserInterface.casefold is true
\* at that moment.
C13_InsertFoldsAsConfigured ==
    [][ PutStep =>
          \E r \in table' :
              /\ r.id = op'.id
              /\ r.filename = (IF ui_casefold THEN Casefold(op'.fn)
                               ELSE op'.fn)
      ]_vars

\* C14: Database.count is greater than every id in the table, so a put
\* with a well-formed digest never collides with an existing primary key;
\* remove_duplicates never deletes the row holding the greatest id.
C14_CountAboveEveryId ==
    /\ [](\A r \in table : r.id < count)
    /\ []((op.name = "put" /\ ValidMd5(op.md5)) => op.ok)
    /\ [][ (op'.name = "remove_duplicates" /\ op' # op /\ table # {}) =>
              /\ table' # {}
              /\ Max(Ids(table')) = Max(Ids(table))
              /\ count' = count
         ]_vars

\* a put went through after remove_duplicates had deleted a row below it
C14_Witness ==
    /\ op.name = "put" /\ op.ok
    /\ op.id = 4
    /\ Cardinality(table) = 3
    /\ count = 5

\* the number of bytes in a stream fed to the hash
RECURSIVE Bytes(_)
Bytes(stream) ==
    IF stream = << >> THEN 0 ELSE Head(stream).n + Bytes(Tail(stream))

\* C15: for every container for which check_one_file returns a digest, the
\* returned size is the number of decompressed bytes fed into the hash.
C15_SizeIsBytesHashed ==
    (pc = "ret" /\ IsUz2(JoinPath(file.name)) /\ ret.ok) =>
        ret.size = Bytes(ret.md5.of)

====
